---- MODULE Spec2Model ----
(***************************************************************************)
(* Model of the MPC controller of ros/src/mpc/src/MPC.cpp: the constructor *)
(* MPC::MPC (variable layout), MPC::Solve (assembly of the NLP, call of    *)
(* the external solver, extraction of the result) and FG_eval::operator()  *)
(* (cost and constraint residuals), which the solver invokes as a callback.*)
(*                                                                         *)
(* Real quantities are integers in units of 1e-6, so that the literal      *)
(* 0.017453 of the source is 17453.  Arrays are functions over 0..n-1, as  *)
(* the source indexes them.                                                *)
(***************************************************************************)
EXTENDS Integers, Sequences, FiniteSets, TLC

\* Largest horizon (steps_ahead) a controller is constructed with.
MaxN == 3
\* Largest number of invocations of the formulator within one Solve call.
MaxEvals == 2

\* double delta_constraint() { return 25; }
delta_constraint == 25
\* SPEED_UPPERBOUND is a macro of MPC.h, the maximum speed; its value is
\* taken to be 100, written in units of 1e-6.  No property depends on it.
SPEED_UPPERBOUND == 100000000
\* The literal 1.0e19 ("no bound") is beyond the integers of the model
\* checker; NoBound stands for it and exceeds every value the model uses.
NoBound == 2000000000

VARIABLES pc, m_params, m_indexes, call, nlp, fg_eval, fg, access, evals,
          solution, ok, result

vars == <<pc, m_params, m_indexes, call, nlp, fg_eval, fg, access, evals,
          solution, ok, result>>

None == [none |-> TRUE]

(***************************************************************************)
(* Inputs.                                                                 *)
(***************************************************************************)
\* Cost weights and timestep of a Params value; ref_v is checked by the
\* constructor against SPEED_UPPERBOUND.
WeightInputs ==
  { [dt |-> 50000, cte_coeff |-> 1, epsi_coeff |-> 2, speed_coeff |-> 3,
     steer_coeff |-> 4, consec_steer_coeff |-> 5, consec_speed_coeff |-> 6],
    [dt |-> 100000, cte_coeff |-> 2, epsi_coeff |-> 1, speed_coeff |-> 1,
     steer_coeff |-> 0, consec_steer_coeff |-> 3, consec_speed_coeff |-> 1] }

RefVInputs == { 2, SPEED_UPPERBOUND }

ParamsInputs ==
  { [steps_ahead |-> n, dt |-> w.dt, cte_coeff |-> w.cte_coeff,
     epsi_coeff |-> w.epsi_coeff, speed_coeff |-> w.speed_coeff,
     steer_coeff |-> w.steer_coeff,
     consec_steer_coeff |-> w.consec_steer_coeff,
     consec_speed_coeff |-> w.consec_speed_coeff, ref_v |-> r] :
    n \in 1..MaxN, w \in WeightInputs, r \in RefVInputs }

\* state[0..4] = x, y, psi, cte, epsi
StateInputs ==
  { [i \in 0..4 |-> 0],
    [i \in 0..4 |-> i + 1],
    [i \in 0..4 |-> 3 - 2 * i] }

\* polynomial coefficients, lowest degree first; coeffs.size() is 0, 1, 2, 4
CoeffInputs == { <<>>, <<1>>, <<0, 1>>, <<1, 0, 2, 1>> }

NewRefVInputs == { 0, 2 }

\* Points at which the solver evaluates the formulator: a + b*i folded into
\* -2..2.  <<2, 0>> is the all-zero initial guess.
IterateSeeds == { <<2, 0>>, <<0, 1>>, <<3, 2>>, <<1, 3>> }
Iterate(seed, n) == [i \in 0..(n - 1) |-> ((seed[1] + seed[2] * i) % 5) - 2]

\* Points the solver's search ends at, before projection on the bounds.
SolutionSeeds ==
  { <<0, 0>>, <<7, 1>>, <<-600000, 100000>>, <<-500000, 0>>,
    <<150000000, -3>> }

\* CppAD::ipopt::solve_result<Dvector>::status_type (a selection)
SolverStatuses == { "success", "maxiter_exceeded", "unknown" }

\* Values an out-of-range read may produce.
Garbage == { -1, 5 }

(***************************************************************************)
(* MPC::MPC                                                                *)
(***************************************************************************)
\* MakeIndexes with the speeds starting a full horizon after the steerings
MakeIndexes_FullActuation(params) ==
  LET x_start     == 0
      y_start     == x_start + params.steps_ahead
      psi_start   == y_start + params.steps_ahead
      cte_start   == psi_start + params.steps_ahead
      epsi_start  == cte_start + params.steps_ahead
      delta_start == epsi_start + params.steps_ahead
      v_start     == delta_start + params.steps_ahead
  IN  [x_start |-> x_start, y_start |-> y_start, psi_start |-> psi_start,
       cte_start |-> cte_start, epsi_start |-> epsi_start,
       delta_start |-> delta_start, v_start |-> v_start]

MakeIndexes(params) ==
  LET x_start     == 0
      y_start     == x_start + params.steps_ahead
      psi_start   == y_start + params.steps_ahead
      cte_start   == psi_start + params.steps_ahead
      epsi_start  == cte_start + params.steps_ahead
      delta_start == epsi_start + params.steps_ahead
      v_start     == delta_start + params.steps_ahead - 1
  IN  [x_start |-> x_start, y_start |-> y_start, psi_start |-> psi_start,
       cte_start |-> cte_start, epsi_start |-> epsi_start,
       delta_start |-> delta_start, v_start |-> v_start]

\* assert(params.ref_v < SPEED_UPPERBOUND) is the constructor's only check.
Construct(params) ==
  /\ pc = "new"
  /\ m_params' = params
  /\ m_indexes' = MakeIndexes(params)
  /\ pc' = IF params.ref_v < SPEED_UPPERBOUND THEN "idle" ELSE "aborted"
  /\ UNCHANGED <<call, nlp, fg_eval, fg, access, evals, solution, ok, result>>

(***************************************************************************)
(* MPC::Solve, up to the call of the solver                                *)
(***************************************************************************)
N_vars(params) == params.steps_ahead * 5 + (params.steps_ahead - 1) * 2
N_constraints(params) == params.steps_ahead * 5

\* InitialVars warm-started from the steering of the last result
InitialVars_WarmStart(n_vars) ==
  [i \in 0..(n_vars - 1) |-> IF Len(result) > 0 THEN result[1] ELSE 0]

InitialVars(n_vars) == [i \in 0..(n_vars - 1) |-> 0]

\* VarsLowerbound with the first loop running up to delta_start inclusive
VarsLowerbound_Inclusive(indexes, n_vars) ==
  [i \in 0..(n_vars - 1) |->
     IF i <= indexes.delta_start THEN -NoBound
     ELSE IF i < indexes.v_start THEN -17453 * delta_constraint
     ELSE 0]

\* The three loops over [0, delta_start), [delta_start, v_start) and
\* [v_start, n_vars).
VarsLowerbound(indexes, n_vars) ==
  [i \in 0..(n_vars - 1) |->
     IF i < indexes.delta_start THEN -NoBound
     ELSE IF i < indexes.v_start THEN -17453 * delta_constraint
     ELSE 0]

VarsUpperbound(indexes, n_vars) ==
  [i \in 0..(n_vars - 1) |->
     IF i < indexes.delta_start THEN NoBound
     ELSE IF i < indexes.v_start THEN 17453 * delta_constraint
     ELSE SPEED_UPPERBOUND]

\* ConstraintsBound with psi and cte assigned to each other's offsets
ConstraintsBound_Swapped(indexes, n_constraints, state) ==
  LET b0 == [i \in 0..(n_constraints - 1) |-> 0]
      b1 == [b0 EXCEPT ![indexes.x_start] = state[0]]
      b2 == [b1 EXCEPT ![indexes.y_start] = state[1]]
      b3 == [b2 EXCEPT ![indexes.psi_start] = state[3]]
      b4 == [b3 EXCEPT ![indexes.cte_start] = state[2]]
  IN  [b4 EXCEPT ![indexes.epsi_start] = state[4]]

\* All zero, then the five entries at the start offsets, in the order of
\* the assignments.  Lower and upper bounds get the same assignments.
ConstraintsBound(indexes, n_constraints, state) ==
  LET b0 == [i \in 0..(n_constraints - 1) |-> 0]
      b1 == [b0 EXCEPT ![indexes.x_start] = state[0]]
      b2 == [b1 EXCEPT ![indexes.y_start] = state[1]]
      b3 == [b2 EXCEPT ![indexes.psi_start] = state[2]]
      b4 == [b3 EXCEPT ![indexes.cte_start] = state[3]]
  IN  [b4 EXCEPT ![indexes.epsi_start] = state[4]]

\* MakeFGEval keeping the configured target speed instead of the call's
MakeFGEval_ConfiguredSpeed(coeffs, params, indexes, ref_v) ==
  [m_coeffs |-> coeffs, m_ref_v |-> params.ref_v, m_params |-> params,
   m_indexes |-> indexes]

\* FG_eval::FG_eval
MakeFGEval(coeffs, params, indexes, ref_v) ==
  [m_coeffs |-> coeffs, m_ref_v |-> ref_v, m_params |-> params,
   m_indexes |-> indexes]

\* The output array the solver hands to the formulator; its contents before
\* the first invocation are not the formulator's.
Stale == [kind |-> "stale", val |-> 0]

SolveBegin(state, coeffs, new_ref_v) ==
  /\ pc = "idle"
  /\ LET n_vars == N_vars(m_params)
         n_constraints == N_constraints(m_params)
     IN  /\ nlp' = [vars |-> InitialVars(n_vars),
                    vars_lowerbound |-> VarsLowerbound(m_indexes, n_vars),
                    vars_upperbound |-> VarsUpperbound(m_indexes, n_vars),
                    constraints_lowerbound |->
                        ConstraintsBound(m_indexes, n_constraints, state),
                    constraints_upperbound |->
                        ConstraintsBound(m_indexes, n_constraints, state)]
         /\ fg' = [k \in 0..n_constraints |-> Stale]
  /\ call' = [state |-> state, coeffs |-> coeffs, new_ref_v |-> new_ref_v]
  /\ fg_eval' = MakeFGEval(coeffs, m_params, m_indexes, new_ref_v)
  /\ access' = None
  /\ evals' = 0
  /\ solution' = None
  /\ ok' = TRUE
  /\ pc' = "solving"
  /\ UNCHANGED <<m_params, m_indexes, result>>

(***************************************************************************)
(* FG_eval::operator()                                                     *)
(*                                                                         *)
(* An execution of the formulator is threaded through a record e: fg is    *)
(* the output array, writes[k] counts the assignments to fg[k], reads is   *)
(* the set of accesses vars[<traj>_start + off].  A residual whose value   *)
(* involves cos, sin, atan or pow is kept as the index of its minuend and  *)
(* the set of indices its subtrahend is built from.                        *)
(***************************************************************************)
Start(indexes, traj) ==
  CASE traj = "x"     -> indexes.x_start
    [] traj = "y"     -> indexes.y_start
    [] traj = "psi"   -> indexes.psi_start
    [] traj = "cte"   -> indexes.cte_start
    [] traj = "epsi"  -> indexes.epsi_start
    [] traj = "delta" -> indexes.delta_start
    [] traj = "v"     -> indexes.v_start

Rd(traj, off) == [traj |-> traj, off |-> off]

Sq(a) == a * a

\* fg[k] = entry
Put(e, k, entry) ==
  [e EXCEPT !.fg = [@ EXCEPT ![k] = entry],
            !.writes = [@ EXCEPT ![k] = @ + 1]]

\* fg[0] += term, term built from the accesses rds
AddCost(e, term, rds) ==
  [e EXCEPT !.fg = [@ EXCEPT ![0] = [@ EXCEPT !.val = @ + term]],
            !.reads = @ \cup rds]

\* for (size_t t=0; t<m_params.steps_ahead; t++)
RECURSIVE CostReference(_, _, _, _)
CostReference(self, v, e, t) ==
  IF t < self.m_params.steps_ahead
  THEN LET a == AddCost(e, self.m_params.cte_coeff
                             * Sq(v[self.m_indexes.cte_start + t]),
                        {Rd("cte", t)})
           b == AddCost(a, self.m_params.epsi_coeff
                             * Sq(v[self.m_indexes.epsi_start + t]),
                        {Rd("epsi", t)})
       IN  CostReference(self, v, b, t + 1)
  ELSE e

\* for (size_t t=0; t<m_params.steps_ahead-1; t++)
RECURSIVE CostActuators(_, _, _, _)
CostActuators(self, v, e, t) ==
  IF t < self.m_params.steps_ahead - 1
  THEN LET a == AddCost(e, self.m_params.speed_coeff
                             * Sq(v[self.m_indexes.v_start + t]
                                  - self.m_ref_v),
                        {Rd("v", t)})
           b == AddCost(a, self.m_params.steer_coeff
                             * Sq(v[self.m_indexes.delta_start + t]),
                        {Rd("delta", t)})
       IN  CostActuators(self, v, b, t + 1)
  ELSE e

\* for (size_t t = 0; t < m_params.steps_ahead-2; t++)
RECURSIVE CostGaps(_, _, _, _)
CostGaps(self, v, e, t) ==
  IF t < self.m_params.steps_ahead - 2
  THEN LET a == AddCost(e, self.m_params.consec_steer_coeff
                             * Sq(v[self.m_indexes.delta_start + t + 1]
                                  - v[self.m_indexes.delta_start + t]),
                        {Rd("delta", t + 1), Rd("delta", t)})
           b == AddCost(a, self.m_params.consec_speed_coeff
                             * Sq(v[self.m_indexes.v_start + t + 1]
                                  - v[self.m_indexes.v_start + t]),
                        {Rd("v", t + 1), Rd("v", t)})
       IN  CostGaps(self, v, b, t + 1)
  ELSE e

\* fg[1 + <s>_start] = vars[<s>_start] for the five state trajectories
InitialResidual(self, v, e, traj) ==
  LET i == Start(self.m_indexes, traj)
  IN  [Put(e, 1 + i, [kind |-> "init", eq |-> traj, minuend |-> i,
                      uses |-> {}, val |-> v[i]])
         EXCEPT !.reads = @ \cup {Rd(traj, 0)}]

InitialConstraints(self, v, e) ==
  LET a == InitialResidual(self, v, e, "x")
      b == InitialResidual(self, v, a, "y")
      c == InitialResidual(self, v, b, "psi")
      d == InitialResidual(self, v, c, "cte")
  IN  InitialResidual(self, v, d, "epsi")

\* StepResidual without the shift by one for the cost at index 0
StepResidual_NoShift(self, e, traj, t, uses) ==
  LET i == Start(self.m_indexes, traj) + t
  IN  [e EXCEPT !.fg = [@ EXCEPT ![i] = [kind |-> "step", eq |-> traj,
                                         minuend |-> i, uses |-> uses,
                                         val |-> 0]],
                !.writes = [@ EXCEPT ![i] = @ + 1]]

\* fg[1 + <s>_start + t] = <s>1 - (...), the subtrahend built from uses
StepResidual(self, e, traj, t, uses) ==
  LET i == Start(self.m_indexes, traj) + t
  IN  Put(e, 1 + i, [kind |-> "step", eq |-> traj, minuend |-> i,
                     uses |-> uses, val |-> 0])

\* for (size_t t = 1; t < m_params.steps_ahead; t++)
RECURSIVE ModelConstraints(_, _, _)
ModelConstraints(self, e, t) ==
  IF t < self.m_params.steps_ahead
  THEN LET ix == self.m_indexes
           x0 == ix.x_start + t - 1
           y0 == ix.y_start + t - 1
           psi0 == ix.psi_start + t - 1
           v0 == ix.v_start + t - 1
           epsi0 == ix.epsi_start + t - 1
           delta0 == ix.delta_start + t - 1
           \* f0 and fdiff0 loop over m_coeffs from i=0 and from i=1
           f0 == IF Len(self.m_coeffs) > 0 THEN {x0} ELSE {}
           fdiff0 == IF Len(self.m_coeffs) > 1 THEN {x0} ELSE {}
           r == [e EXCEPT !.reads = @ \cup
                   { Rd("x", t), Rd("y", t), Rd("psi", t), Rd("cte", t),
                     Rd("epsi", t), Rd("x", t - 1), Rd("y", t - 1),
                     Rd("psi", t - 1), Rd("v", t - 1), Rd("cte", t - 1),
                     Rd("epsi", t - 1), Rd("delta", t - 1) }]
           a == StepResidual(self, r, "x", t, {x0, v0, psi0})
           b == StepResidual(self, a, "y", t, {y0, v0, psi0})
           c == StepResidual(self, b, "psi", t, {psi0, v0, delta0})
           d == StepResidual(self, c, "cte", t, f0 \cup {y0, v0, epsi0})
           f == StepResidual(self, d, "epsi", t,
                             fdiff0 \cup {psi0, v0, delta0})
       IN  ModelConstraints(self, f, t + 1)
  ELSE e

\* FG without the assignment fg[0] = 0
FG_NoCostReset(self, out, v, g) ==
  LET e0 == [fg |-> out, writes |-> [k \in DOMAIN out |-> 0], reads |-> {}]
      e2 == CostReference(self, v, e0, 0)
      e3 == CostActuators(self, v, e2, 0)
      e4 == IF self.m_params.steps_ahead < 2
            THEN e3
            ELSE CostGaps(self, v, e3, 0)
      e5 == InitialConstraints(self, v, e4)
  IN  ModelConstraints(self, e5, 1)

\* One invocation on the output array out and the point v.  With
\* steps_ahead < 2 the unsigned limit steps_ahead-2 of the third loop wraps
\* and the loop reads past the end of vars: the cost is then g, whatever
\* the reads produced.
FG(self, out, v, g) ==
  LET e0 == [fg |-> out, writes |-> [k \in DOMAIN out |-> 0], reads |-> {}]
      e1 == Put(e0, 0, [kind |-> "cost", val |-> 0])
      e2 == CostReference(self, v, e1, 0)
      e3 == CostActuators(self, v, e2, 0)
      e4 == IF self.m_params.steps_ahead < 2
            THEN AddCost(e3, g, {Rd("delta", 1), Rd("v", 1)})
            ELSE CostGaps(self, v, e3, 0)
      e5 == InitialConstraints(self, v, e4)
  IN  ModelConstraints(self, e5, 1)

\* The solver invokes fg_eval(fg, vars) at a point of its choice.
Eval(seed, g) ==
  /\ pc = "solving"
  /\ evals < MaxEvals
  /\ LET e == FG(fg_eval, fg, Iterate(seed, N_vars(m_params)), g)
     IN  \/ /\ fg' = e.fg
            /\ access' = [point |-> Iterate(seed, N_vars(m_params)),
                           writes |-> e.writes, reads |-> e.reads]
            /\ evals' = evals + 1
            /\ UNCHANGED pc
         \/ /\ m_params.steps_ahead < 2
            /\ pc' = "fault"
            /\ UNCHANGED <<fg, access, evals>>
  /\ UNCHANGED <<m_params, m_indexes, call, nlp, fg_eval, solution, ok,
                 result>>

(***************************************************************************)
(* MPC::Solve, from the return of the solver                               *)
(***************************************************************************)
Min(a, b) == IF a < b THEN a ELSE b
Max(a, b) == IF a < b THEN b ELSE a

\* The solver returns a point inside the variable bounds it was given.
SolverPoint(seed, lower, upper) ==
  [i \in DOMAIN lower |->
     Min(Max(seed[1] + seed[2] * i, lower[i]), upper[i])]

\* solution.x[i]; past the end of the array the read yields g
At(x, i, g) == IF i \in DOMAIN x THEN x[i] ELSE g

\* for (size_t i=0; i < m_params.steps_ahead; i++) push x, push y
RECURSIVE Trajectory(_, _, _, _, _)
Trajectory(x, params, indexes, g, i) ==
  IF i < params.steps_ahead
  THEN <<At(x, indexes.x_start + i, g), At(x, indexes.y_start + i, g)>>
         \o Trajectory(x, params, indexes, g, i + 1)
  ELSE <<>>

\* Extract with the speed pushed before the steering
Extract_SpeedFirst(x, params, indexes, g) ==
  <<At(x, indexes.v_start, g), At(x, indexes.delta_start, g)>>
    \o Trajectory(x, params, indexes, g, 0)

Extract(x, params, indexes, g) ==
  <<At(x, indexes.delta_start, g), At(x, indexes.v_start, g)>>
    \o Trajectory(x, params, indexes, g, 0)

SolverReturn(status, seed, g) ==
  /\ pc = "solving"
  /\ evals >= 1
  /\ LET x == SolverPoint(seed, nlp.vars_lowerbound, nlp.vars_upperbound)
     IN  \/ /\ solution' = [status |-> status, x |-> x]
            /\ ok' = (ok /\ status = "success")
            /\ result' = Extract(x, m_params, m_indexes, g)
            /\ pc' = "idle"
         \/ /\ ~ ({m_indexes.delta_start, m_indexes.v_start} \subseteq DOMAIN x)
            /\ pc' = "fault"
            /\ UNCHANGED <<solution, ok, result>>
  /\ call' = None
  /\ nlp' = None
  /\ fg_eval' = None
  /\ fg' = None
  /\ access' = None
  /\ evals' = 0
  /\ UNCHANGED <<m_params, m_indexes>>

(***************************************************************************)
(* Properties                                                              *)
(***************************************************************************)
StateTrajectories == {"x", "y", "psi", "cte", "epsi"}
ActuationTrajectories == {"delta", "v"}
AllTrajectories == StateTrajectories \cup ActuationTrajectories

Constructed == pc \in {"idle", "solving", "fault"}
ValidHorizon == m_params.steps_ahead >= 2
Evaluated == pc = "solving" /\ evals >= 1
Returned == pc = "idle" /\ solution # None

RangeLen(traj) ==
  IF traj \in ActuationTrajectories THEN m_params.steps_ahead - 1
  ELSE m_params.steps_ahead
OffsetRange(traj) ==
  Start(m_indexes, traj) .. (Start(m_indexes, traj) + RangeLen(traj) - 1)
TotalLength == m_indexes.v_start + (m_params.steps_ahead - 1)

\* component of the VehicleState that belongs to a state trajectory
Component(state, traj) ==
  CASE traj = "x" -> state[0] [] traj = "y" -> state[1]
    [] traj = "psi" -> state[2] [] traj = "cte" -> state[3]
    [] traj = "epsi" -> state[4]

RECURSIVE SumOver(_, _, _)
SumOver(F(_), lo, hi) == IF lo > hi THEN 0 ELSE F(lo) + SumOver(F, lo + 1, hi)

\* C1: for a horizon N >= 2 the seven offset ranges are pairwise disjoint,
\* their union is [0, total_length), and total_length = v_start + (N-1) is
\* the n_vars = 5N + 2(N-1) that Solve allocates.
C1_IndexerPartition ==
  (Constructed /\ ValidHorizon) =>
    /\ \A s, t \in AllTrajectories :
         s # t => OffsetRange(s) \cap OffsetRange(t) = {}
    /\ UNION { OffsetRange(s) : s \in AllTrajectories } = 0..(TotalLength - 1)
    /\ TotalLength = 5 * m_params.steps_ahead
                       + 2 * (m_params.steps_ahead - 1)
    /\ pc = "solving" =>
         /\ DOMAIN nlp.vars = 0..(TotalLength - 1)
         /\ DOMAIN nlp.vars_lowerbound = 0..(TotalLength - 1)
         /\ DOMAIN nlp.vars_upperbound = 0..(TotalLength - 1)

C1_Witness ==
  pc = "solving" /\ m_params.steps_ahead = 3 /\ OffsetRange("delta") = 15..16

\* C2: with a valid horizon, steering variables are bounded by
\* +/- max_steering_angle, speed variables by [0, max_speed], state
\* variables by +/-1e19, and the delta_0 and v_0 of a returned result are
\* the solution's entries at delta_start and v_start, within those bounds.
C2_BoundRespect ==
  /\ (pc = "solving" /\ ValidHorizon) =>
       \A i \in 0..(TotalLength - 1) :
         /\ i < m_indexes.delta_start =>
              /\ nlp.vars_lowerbound[i] = -NoBound
              /\ nlp.vars_upperbound[i] = NoBound
         /\ i \in OffsetRange("delta") =>
              /\ nlp.vars_lowerbound[i] = -(17453 * delta_constraint)
              /\ nlp.vars_upperbound[i] = 17453 * delta_constraint
         /\ i \in OffsetRange("v") =>
              /\ nlp.vars_lowerbound[i] = 0
              /\ nlp.vars_upperbound[i] = SPEED_UPPERBOUND
  /\ (Returned /\ ValidHorizon) =>
       /\ result[1] = solution.x[m_indexes.delta_start]
       /\ result[2] = solution.x[m_indexes.v_start]
       /\ -(17453 * delta_constraint) <= result[1]
       /\ result[1] <= 17453 * delta_constraint
       /\ 0 <= result[2]
       /\ result[2] <= SPEED_UPPERBOUND

\* the solver's search ended outside both actuator bounds
C2_Witness ==
  /\ Returned /\ ValidHorizon
  /\ result[1] = -(17453 * delta_constraint)
  /\ result[2] = 0
  /\ solution.x[0] = -500000

\* C3: a result returned after a non-success solver status is tagged as
\* non-converged: it differs from every value Solve returns when the solver
\* succeeds, so the caller can tell the two apart.
C3_NonConvergedTagged ==
  (Returned /\ solution.status # "success") =>
    \A seed \in SolutionSeeds, g \in Garbage :
      result # Extract(SolverPoint(seed,
                          VarsLowerbound(m_indexes, N_vars(m_params)),
                          VarsUpperbound(m_indexes, N_vars(m_params))),
                       m_params, m_indexes, g)

\* C4: a controller is never constructed, and Solve and the formulator are
\* never reached, with a horizon steps_ahead < 2.
C4_DegenerateHorizonRejected ==
  Constructed => m_params.steps_ahead >= 2

\* C5: in a Solve call the constraint at the start offset of each state
\* trajectory (the one whose residual the formulator sets from the entry at
\* t=0) has lower and upper bound equal to the matching state component;
\* each of the other 5N-5 constraints has bounds [0, 0].
C5_InitialStateConstraints ==
  pc = "solving" =>
    LET starts == { Start(m_indexes, s) : s \in StateTrajectories }
        others == (DOMAIN nlp.constraints_lowerbound) \ starts
    IN  /\ DOMAIN nlp.constraints_lowerbound
             = 0..(5 * m_params.steps_ahead - 1)
        /\ DOMAIN nlp.constraints_upperbound
             = 0..(5 * m_params.steps_ahead - 1)
        /\ \A s \in StateTrajectories :
             LET k == Start(m_indexes, s)
             IN  /\ nlp.constraints_lowerbound[k] = Component(call.state, s)
                 /\ nlp.constraints_upperbound[k] = Component(call.state, s)
                 /\ evals >= 1 =>
                      /\ fg[k + 1].kind = "init"
                      /\ fg[k + 1].minuend = Start(m_indexes, s)
                      /\ fg[k + 1].val = access.point[Start(m_indexes, s)]
        /\ Cardinality(others) = 5 * m_params.steps_ahead - 5
        /\ \A k \in others :
             /\ nlp.constraints_lowerbound[k] = 0
             /\ nlp.constraints_upperbound[k] = 0

C5_Witness ==
  /\ Evaluated /\ ValidHorizon
  /\ call.state = [i \in 0..4 |-> i + 1]
  /\ nlp.constraints_upperbound[m_indexes.cte_start] = 4

\* C6: the formulator produces exactly 5(N-1) per-step residuals; for t in
\* 1..N-1 and a state trajectory s the residual of constraint s_start + t
\* is var[s_start + t] minus a value built only from step t-1 entries, and
\* that constraint is bounded to [0, 0].
C6_StepResiduals ==
  Evaluated =>
    /\ Cardinality({ k \in DOMAIN fg : fg[k].kind = "step" })
         = 5 * (m_params.steps_ahead - 1)
    /\ \A t \in 1..(m_params.steps_ahead - 1), s \in StateTrajectories :
         LET k == Start(m_indexes, s) + t
         IN  /\ fg[k + 1].kind = "step"
             /\ fg[k + 1].eq = s
             /\ fg[k + 1].minuend = k
             /\ fg[k + 1].uses \subseteq
                  { Start(m_indexes, u) + (t - 1) : u \in AllTrajectories }
             /\ m_indexes.v_start + (t - 1) \in fg[k + 1].uses
             /\ nlp.constraints_lowerbound[k] = 0
             /\ nlp.constraints_upperbound[k] = 0

C6_Witness ==
  /\ Evaluated /\ m_params.steps_ahead = 3
  /\ fg[1 + m_indexes.epsi_start + 2].uses
       = { m_indexes.x_start + 1, m_indexes.psi_start + 1,
           m_indexes.v_start + 1, m_indexes.delta_start + 1 }

\* C7: for N >= 2 the cost is the three sums of the cost function, over
\* t=0..N-1, t=0..N-2 and t=0..N-3, with the target speed of the call.
C7_Cost ==
  (Evaluated /\ ValidHorizon) =>
    LET N == m_params.steps_ahead
        p == m_params
        v == access.point
        cte(t) == v[m_indexes.cte_start + t]
        epsi(t) == v[m_indexes.epsi_start + t]
        delta(t) == v[m_indexes.delta_start + t]
        spd(t) == v[m_indexes.v_start + t]
        Tracking(t) == p.cte_coeff * cte(t) * cte(t)
                         + p.epsi_coeff * epsi(t) * epsi(t)
        Effort(t) == p.speed_coeff * (spd(t) - call.new_ref_v)
                                   * (spd(t) - call.new_ref_v)
                       + p.steer_coeff * delta(t) * delta(t)
        Smooth(t) == p.consec_steer_coeff * (delta(t + 1) - delta(t))
                                          * (delta(t + 1) - delta(t))
                       + p.consec_speed_coeff * (spd(t + 1) - spd(t))
                                              * (spd(t + 1) - spd(t))
    IN  /\ fg[0].kind = "cost"
        /\ fg[0].val = SumOver(Tracking, 0, N - 1) + SumOver(Effort, 0, N - 2)
                         + SumOver(Smooth, 0, N - 3)

\* a horizon with a non-empty third sum, a target speed that differs from
\* the configured one, and a non-zero cost
C7_Witness ==
  /\ Evaluated /\ m_params.steps_ahead = 3
  /\ call.new_ref_v # m_params.ref_v
  /\ m_params.speed_coeff = 3
  /\ access.point[m_indexes.delta_start + 1] # access.point[m_indexes.delta_start]
  /\ fg[0].val > 0

\* C8: the returned value is delta_0, v_0 and then (x_t, y_t) for t=0..N-1
\* in increasing t, read from delta_start, v_start, x_start + t and
\* y_start + t: 2 + 2N entries and nothing else.
C8_Result ==
  (Returned /\ ValidHorizon) =>
    /\ Len(result) = 2 + 2 * m_params.steps_ahead
    /\ result[1] = solution.x[m_indexes.delta_start]
    /\ result[2] = solution.x[m_indexes.v_start]
    /\ \A t \in 0..(m_params.steps_ahead - 1) :
         /\ result[3 + 2 * t] = solution.x[m_indexes.x_start + t]
         /\ result[4 + 2 * t] = solution.x[m_indexes.y_start + t]

\* a solution whose entries are pairwise different
C8_Witness ==
  /\ Returned /\ m_params.steps_ahead = 3
  /\ \A i, j \in DOMAIN solution.x : i # j => solution.x[i] # solution.x[j]
  /\ result = <<22, 24, 7, 10, 8, 11, 9, 12>>

Init ==
  /\ pc = "new"
  /\ m_params = None
  /\ m_indexes = None
  /\ call = None
  /\ nlp = None
  /\ fg_eval = None
  /\ fg = None
  /\ access = None
  /\ evals = 0
  /\ solution = None
  /\ ok = TRUE
  /\ result = <<>>

Next ==
  \/ \E params \in ParamsInputs : Construct(params)
  \/ \E state \in StateInputs, coeffs \in CoeffInputs,
        new_ref_v \in NewRefVInputs : SolveBegin(state, coeffs, new_ref_v)
  \/ \E seed \in IterateSeeds, g \in Garbage : Eval(seed, g)
  \/ \E status \in SolverStatuses, seed \in SolutionSeeds, g \in Garbage :
        SolverReturn(status, seed, g)

Spec == Init /\ [][Next]_vars
====
